---- MODULE Spec2Model ----
(***************************************************************************)
(* khicago/repoll coverage scripts: coverage_analysis.py                   *)
(* (analyze_coverage) and simple_coverage_calc.py.                         *)
(*                                                                         *)
(* A text line is a sequence of one-character strings, the file            *)
(* coverage_new.out is a sequence of such lines (readlines), or NoFile.    *)
(* Python floats are modelled as exact rationals [num, den]; the           *)
(* format ':.2f' is rounding to hundredths, ties to even.                  *)
(***************************************************************************)
EXTENDS Integers, Sequences, FiniteSets, TLC

VARIABLES
    coverage_file,       \* coverage_new.out on disk: NoFile or the lines readlines() gives
    a_pc,                \* analyze_coverage: "start", "loop", "done", "aborted"
    a_i,                 \* analyze_coverage: 1-based index of the next line of lines[1:]
    file_stats,          \* dict filename -> {'total', 'covered'}
    file_keys,           \* the dict's keys in insertion order (file_stats.keys())
    total_statements,
    covered_statements,
    a_out,               \* what analyze_coverage printed
    s_pc,                \* simple_coverage_calc: "start", "loop", "done", "aborted"
    s_i,
    total_lines,
    covered_lines,
    s_out,               \* what simple_coverage_calc printed
    run,                 \* number of the analyze_coverage invocation (1, or 2 after a re-run)
    prev                 \* outcome of the analyze_coverage invocation before the re-run

vars == <<coverage_file, a_pc, a_i, file_stats, file_keys, total_statements,
          covered_statements, a_out, s_pc, s_i, total_lines, covered_lines,
          s_out, run, prev>>

a_vars == <<a_pc, a_i, file_stats, file_keys, total_statements,
            covered_statements, a_out>>

s_vars == <<s_pc, s_i, total_lines, covered_lines, s_out>>

----------------------------------------------------------------------------
(* Bounds of the model *)

\* data lines (after the header) in a file of Spec
MaxLines == 2

\* data lines (after the header) in a file of SpecShuffle
MaxShuffleLines == 3

\* statements in a file of SpecReport
MaxStatements == 233

(* Program constants *)

\* overall_percent >= 97.0
Threshold == 97

\* lines[1:6]: the preview shows the first 5 data lines
PreviewEnd == 6

----------------------------------------------------------------------------
(* Characters and strings *)

\* the characters of the model, in ascending code-point order
AsciiOrder ==
    << "\n", " ", "+", "-", ".", "/", "0", "1", ":", "_",
       "a", "b", "c", "d", "e", "g", "h", "i", "k", "l", "m", "o", "p", "r",
       "s", "t", "u", "x" >>

Digits == {"0", "1"}

\* str.isspace for the characters of the model
IsSpace(c) == c \in {" ", "\n"}

\* ord(c), up to an order-preserving renumbering
Ord(c) == CHOOSE k \in DOMAIN AsciiOrder : AsciiOrder[k] = c

\* Python's str < str: lexicographic by code point, a proper prefix first
RECURSIVE StrLess(_, _)
StrLess(s, t) ==
    IF t = <<>> THEN FALSE
    ELSE IF s = <<>> THEN TRUE
    ELSE IF Head(s) = Head(t) THEN StrLess(Tail(s), Tail(t))
    ELSE Ord(Head(s)) < Ord(Head(t))

RECURSIVE LStrip(_)
LStrip(s) == IF s # <<>> /\ IsSpace(Head(s)) THEN LStrip(Tail(s)) ELSE s

RECURSIVE RStrip(_)
RStrip(s) ==
    IF s # <<>> /\ IsSpace(s[Len(s)]) THEN RStrip(SubSeq(s, 1, Len(s) - 1)) ELSE s

\* str.strip()
Strip(s) == RStrip(LStrip(s))

RECURSIVE SplitFrom(_, _, _)
SplitFrom(s, cur, acc) ==
    IF s = <<>> THEN (IF cur = <<>> THEN acc ELSE Append(acc, cur))
    ELSE IF IsSpace(Head(s))
         THEN SplitFrom(Tail(s), <<>>, IF cur = <<>> THEN acc ELSE Append(acc, cur))
         ELSE SplitFrom(Tail(s), Append(cur, Head(s)), acc)

\* str.split(): the maximal runs of non-whitespace characters
Split(s) == SplitFrom(s, <<>>, <<>>)

\* str.rfind(c): the 0-based index of the last c, or -1
RFind(s, c) ==
    IF \E k \in DOMAIN s : s[k] = c
    THEN (CHOOSE k \in DOMAIN s : s[k] = c /\ \A j \in DOMAIN s : s[j] = c => j <= k) - 1
    ELSE -1

\* str.replace(old, new): every non-overlapping occurrence, left to right
RECURSIVE Replace(_, _, _)
Replace(s, old, new) ==
    IF Len(s) < Len(old) THEN s
    ELSE IF SubSeq(s, 1, Len(old)) = old
         THEN new \o Replace(SubSeq(s, Len(old) + 1, Len(s)), old, new)
         ELSE <<Head(s)>> \o Replace(Tail(s), old, new)

\* the sign-less part of an int() literal: digits, single underscores between them
IsDigits(s) ==
    /\ s # <<>>
    /\ \A k \in DOMAIN s : s[k] \in Digits \cup {"_"}
    /\ s[1] # "_" /\ s[Len(s)] # "_"
    /\ \A k \in 1..(Len(s) - 1) : ~(s[k] = "_" /\ s[k + 1] = "_")

\* whether int(tok) returns (otherwise it raises ValueError)
IntParses(tok) ==
    /\ tok # <<>>
    /\ IsDigits(IF tok[1] \in {"+", "-"} THEN Tail(tok) ELSE tok)

RECURSIVE DigitsValue(_, _)
DigitsValue(s, acc) ==
    IF s = <<>> THEN acc
    ELSE IF Head(s) = "_" THEN DigitsValue(Tail(s), acc)
    ELSE DigitsValue(Tail(s), 10 * acc + (IF Head(s) = "1" THEN 1 ELSE 0))

\* int(tok), for a token that parses
IntValue(tok) ==
    IF tok[1] = "-" THEN 0 - DigitsValue(Tail(tok), 0)
    ELSE IF tok[1] = "+" THEN DigitsValue(Tail(tok), 0)
    ELSE DigitsValue(tok, 0)

\* 'github.com/khicago/repoll/'
ModulePrefix ==
    << "g", "i", "t", "h", "u", "b", ".", "c", "o", "m", "/",
       "k", "h", "i", "c", "a", "g", "o", "/",
       "r", "e", "p", "o", "l", "l", "/" >>

\* filename.replace('github.com/khicago/repoll/', '')
StripPrefix(filename) == Replace(filename, ModulePrefix, <<>>)

----------------------------------------------------------------------------
(* Arithmetic of the report *)

\* the float covered / total * 100, or 0 when total is 0, as an exact rational
Percent(covered, total) ==
    IF total > 0 THEN [num |-> 100 * covered, den |-> total]
    ELSE [num |-> 0, den |-> 1]

\* num / den (>= 0) rounded to an integer, ties to even
RoundHalfEven(num, den) ==
    LET q == num \div den
        r == num % den
    IN  IF 2 * r < den THEN q
        ELSE IF 2 * r > den THEN q + 1
        ELSE IF q % 2 = 0 THEN q ELSE q + 1

\* f"{p:.2f}": the number printed, in hundredths
Fmt2(p) == RoundHalfEven(100 * p.num, p.den)

\* MeetsTarget with > for >=
MeetsTargetStrict(p) == p.num > Threshold * p.den

\* overall_percent >= 97.0
MeetsTarget(p) == p.num >= Threshold * p.den

\* needed = 97.0 - overall_percent
Needed(p) == [num |-> Threshold * p.den - p.num, den |-> p.den]

\* the verdict line: the pass message, or the fail message with the two numbers in it
VerdictLine(p) ==
    IF MeetsTarget(p) THEN [pass |-> TRUE]
    ELSE [pass |-> FALSE, shown |-> Fmt2(p), needed |-> Fmt2(Needed(p))]

----------------------------------------------------------------------------
(* The dict file_stats *)

EmptyStats == [f \in {} |-> [total |-> 0, covered |-> 0]]

\* AddRecord without "if filename not in file_stats": the entry is reset on every record
AddRecordReset(stats, filename, covered) ==
    [f \in DOMAIN stats \cup {filename} |->
        IF f = filename THEN [total |-> 1, covered |-> IF covered > 0 THEN 1 ELSE 0]
        ELSE stats[f]]

\* file_stats after one record: the entry is created on first sight, total goes up
\* by one, covered goes up by one when the count is positive
AddRecord(stats, filename, covered) ==
    LET old == IF filename \in DOMAIN stats THEN stats[filename]
               ELSE [total |-> 0, covered |-> 0]
        new == [total   |-> old.total + 1,
                covered |-> IF covered > 0 THEN old.covered + 1 ELSE old.covered]
    IN  [f \in DOMAIN stats \cup {filename} |-> IF f = filename THEN new ELSE stats[f]]

\* the dict's key order: a new key goes last
AddKey(keys, filename) ==
    IF \E k \in DOMAIN keys : keys[k] = filename THEN keys ELSE Append(keys, filename)

\* AddCovered without "if covered > 0"
AddCoveredAlways(n, covered) == n + 1

\* covered_statements after one record
AddCovered(n, covered) == IF covered > 0 THEN n + 1 ELSE n

RECURSIVE InsertSorted(_, _)
InsertSorted(s, x) ==
    IF s = <<>> THEN <<x>>
    ELSE IF StrLess(x, Head(s)) THEN <<x>> \o s
    ELSE <<Head(s)>> \o InsertSorted(Tail(s), x)

RECURSIVE SortedSeq(_)
SortedSeq(s) ==
    IF s = <<>> THEN <<>>
    ELSE InsertSorted(SortedSeq(SubSeq(s, 1, Len(s) - 1)), s[Len(s)])

\* RowOrder without sorted(): the dict's own order
RowOrderUnsorted(keys) == keys

\* sorted(file_stats.keys())
RowOrder(keys) == SortedSeq(keys)

\* one row of the per-file table
FileRow(stats, filename) ==
    [name    |-> filename,
     covered |-> stats[filename].covered,
     total   |-> stats[filename].total,
     percent |-> Fmt2([num |-> 100 * stats[filename].covered,
                       den |-> stats[filename].total])]

RECURSIVE RowsOf(_, _)
RowsOf(stats, order) ==
    IF order = <<>> THEN <<>>
    ELSE (IF stats[Head(order)].total > 0 THEN <<FileRow(stats, Head(order))>> ELSE <<>>)
         \o RowsOf(stats, Tail(order))

\* the per-file table
FileRows(stats, keys) == RowsOf(stats, RowOrder(keys))

----------------------------------------------------------------------------
(* The input files of the model *)

\* one line of the profile as readlines() returns it
Line(location, statements, count) ==
    location \o <<" ">> \o statements \o <<" ">> \o count \o <<"\n">>

\* the first line of a profile
Header == << "m", "o", "d", "e", ":", " ", "s", "e", "t", "\n" >>

LineACovered    == Line(<<"a", ":", "1">>, <<"1">>, <<"1">>)
LineAUncovered  == Line(<<"a", ":", "1">>, <<"1">>, <<"0">>)
LineBCovered    == Line(<<"b", ":", "1">>, <<"1">>, <<"1">>)
LineXACovered   == Line(<<"x", "/", "a", ":", "1">>, <<"1">>, <<"1">>)
LinePrefixedA   == Line(ModulePrefix \o <<"a", ":", "1">>, <<"1">>, <<"1">>)
LineInnerPrefix == Line(<<"x", "/">> \o ModulePrefix \o <<"a", ":", "1">>, <<"1">>, <<"0">>)
LineBlank       == << " ", "\n" >>
LineShort       == << "a", ":", "1", " ", "1", "\n" >>
LineNoColon     == Line(<<"a">>, <<"1">>, <<"1">>)
LineNoColonBad  == Line(<<"a">>, <<"1">>, <<"x">>)
LineBadCount    == Line(<<"a", ":", "1">>, <<"1">>, <<"x">>)
LineNegative    == Line(<<"b", ":", "1">>, <<"1">>, <<"-", "1">>)

\* the data lines a file of Spec is made of
LineChoices ==
    { LineACovered, LineAUncovered, LineBCovered, LineXACovered, LinePrefixedA,
      LineInnerPrefix, LineBlank, LineShort, LineNoColon, LineNoColonBad,
      LineBadCount, LineNegative }

\* the data lines a file of SpecShuffle is made of: none aborts the run
ShuffleChoices ==
    { LineACovered, LineAUncovered, LineBCovered, LineXACovered, LinePrefixedA,
      LineShort }

NoFile == [exists |-> FALSE, lines |-> <<>>]

FileOf(ls) == [exists |-> TRUE, lines |-> ls]

\* the files of at most n data lines drawn from choices, and the empty file
Files(choices, n) ==
    {FileOf(<<>>)}
    \cup {FileOf(<<Header>> \o d) : d \in UNION {[1..k -> choices] : k \in 0..n}}

\* nothing printed yet
NoReport ==
    [notfound |-> FALSE, printed |-> FALSE, total |-> 0, covered |-> 0,
     overall |-> 0, rows |-> <<>>, verdict |-> [pass |-> FALSE, shown |-> 0, needed |-> 0]]

NoSimpleReport ==
    [counts |-> FALSE, file_lines |-> 0, data_lines |-> 0,
     printed |-> FALSE, covered |-> 0, percent |-> 0,
     verdict |-> [pass |-> FALSE, shown |-> 0, needed |-> 0], preview |-> <<>>]

NoPrev ==
    [pc |-> "none", lines |-> <<>>, file_stats |-> EmptyStats, total |-> 0, covered |-> 0]

\* both scripts before their first statement
Fresh ==
    /\ a_pc = "start" /\ a_i = 1
    /\ file_stats = EmptyStats /\ file_keys = <<>>
    /\ total_statements = 0 /\ covered_statements = 0
    /\ a_out = NoReport
    /\ s_pc = "start" /\ s_i = 1
    /\ total_lines = 0 /\ covered_lines = 0
    /\ s_out = NoSimpleReport
    /\ run = 1 /\ prev = NoPrev

Init ==
    /\ coverage_file \in {NoFile} \cup Files(LineChoices, MaxLines)
    /\ Fresh

----------------------------------------------------------------------------
(* analyze_coverage *)

lines == coverage_file.lines

\* os.path.exists, readlines, the three accumulators
AnalyzeOpen ==
    /\ a_pc = "start"
    /\ IF coverage_file.exists
       THEN /\ a_pc' = "loop"
            /\ a_i' = 2
            /\ file_stats' = EmptyStats
            /\ file_keys' = <<>>
            /\ total_statements' = 0
            /\ covered_statements' = 0
            /\ a_out' = a_out
       ELSE /\ a_pc' = "done"
            /\ a_out' = [a_out EXCEPT !.notfound = TRUE]
            /\ UNCHANGED <<a_i, file_stats, file_keys, total_statements,
                           covered_statements>>
    /\ UNCHANGED <<coverage_file, s_vars, run, prev>>

\* one pass of the body of "for line in lines[1:]"
AnalyzeLine ==
    /\ a_pc = "loop"
    /\ a_i <= Len(lines)
    /\ LET line  == Strip(lines[a_i])
           parts == Split(line)
           Skip  == /\ a_i' = a_i + 1
                    /\ UNCHANGED <<a_pc, file_stats, file_keys, total_statements,
                                   covered_statements>>
       IN  IF line = <<>> THEN Skip
           ELSE IF Len(parts) < 3 THEN Skip
           ELSE IF ~IntParses(parts[3])
           THEN \* int(parts[2]) raises ValueError: the script dies with a traceback
                /\ a_pc' = "aborted"
                /\ UNCHANGED <<a_i, file_stats, file_keys, total_statements,
                               covered_statements>>
           ELSE LET file_part   == parts[1]
                    covered     == IntValue(parts[3])
                    colon_index == RFind(file_part, ":")
                    filename    == StripPrefix(SubSeq(file_part, 1, colon_index))
                IN  IF colon_index = -1 THEN Skip
                    ELSE /\ file_stats' = AddRecord(file_stats, filename, covered)
                         /\ file_keys' = AddKey(file_keys, filename)
                         /\ total_statements' = total_statements + 1
                         /\ covered_statements' = AddCovered(covered_statements, covered)
                         /\ a_i' = a_i + 1
                         /\ a_pc' = a_pc
    /\ UNCHANGED <<coverage_file, a_out, s_vars, run, prev>>

\* everything after the loop: the totals, the per-file table, the verdict
AnalyzeReport ==
    /\ a_pc = "loop"
    /\ a_i > Len(lines)
    /\ LET overall_percent == Percent(covered_statements, total_statements)
       IN  a_out' = [notfound |-> FALSE,
                     printed  |-> TRUE,
                     total    |-> total_statements,
                     covered  |-> covered_statements,
                     overall  |-> Fmt2(overall_percent),
                     rows     |-> FileRows(file_stats, file_keys),
                     verdict  |-> VerdictLine(overall_percent)]
    /\ a_pc' = "done"
    /\ UNCHANGED <<coverage_file, a_i, file_stats, file_keys, total_statements,
                   covered_statements, s_vars, run, prev>>

----------------------------------------------------------------------------
(* simple_coverage_calc *)

\* open (FileNotFoundError when the file is missing), readlines, the two counters
\* and the two counts printed before the loop
SimpleOpen ==
    /\ s_pc = "start"
    /\ IF coverage_file.exists
       THEN /\ s_pc' = "loop"
            /\ s_i' = 2
            /\ total_lines' = Len(lines) - 1
            /\ covered_lines' = 0
            /\ s_out' = [s_out EXCEPT !.counts = TRUE,
                                      !.file_lines = Len(lines),
                                      !.data_lines = Len(lines) - 1]
       ELSE /\ s_pc' = "aborted"
            /\ UNCHANGED <<s_i, total_lines, covered_lines, s_out>>
    /\ UNCHANGED <<coverage_file, a_vars, run, prev>>

\* one pass of the body of the counting loop
SimpleLine ==
    /\ s_pc = "loop"
    /\ s_i <= Len(lines)
    /\ LET parts == Split(Strip(lines[s_i]))
       IN  IF Len(parts) >= 3
           THEN IF ~IntParses(parts[3])
                THEN /\ s_pc' = "aborted"
                     /\ UNCHANGED <<s_i, covered_lines>>
                ELSE /\ covered_lines' = AddCovered(covered_lines, IntValue(parts[3]))
                     /\ s_i' = s_i + 1
                     /\ s_pc' = s_pc
           ELSE /\ s_i' = s_i + 1
                /\ UNCHANGED <<s_pc, covered_lines>>
    /\ UNCHANGED <<coverage_file, total_lines, s_out, a_vars, run, prev>>

\* the preview of lines[1:6]
RECURSIVE PreviewFrom(_, _)
PreviewFrom(ls, k) ==
    IF k > Len(ls) \/ k > PreviewEnd THEN <<>>
    ELSE LET parts == Split(Strip(ls[k]))
         IN  (IF Len(parts) >= 3
              THEN <<[line |-> k - 1, location |-> parts[1], count |-> parts[3],
                      covered |-> IntValue(parts[3]) > 0]>>
              ELSE <<>>)
             \o PreviewFrom(ls, k + 1)

\* everything after the loop: the percentage, the verdict, the preview
SimpleReport ==
    /\ s_pc = "loop"
    /\ s_i > Len(lines)
    /\ LET coverage_percent == Percent(covered_lines, total_lines)
       IN  s_out' = [s_out EXCEPT !.printed = TRUE,
                                  !.covered = covered_lines,
                                  !.percent = Fmt2(coverage_percent),
                                  !.verdict = VerdictLine(coverage_percent),
                                  !.preview = PreviewFrom(lines, 2)]
    /\ s_pc' = "done"
    /\ UNCHANGED <<coverage_file, s_i, total_lines, covered_lines, a_vars, run, prev>>

----------------------------------------------------------------------------
(* Specifications *)

\* both scripts, each run once on the same file
Next ==
    \/ AnalyzeOpen
    \/ AnalyzeLine
    \/ AnalyzeReport
    \/ SimpleOpen
    \/ SimpleLine
    \/ SimpleReport

Spec == Init /\ [][Next]_vars

\* a profile of total statements of one file, the first covered of them covered
ReportFile(covered, total) ==
    FileOf(<<Header>> \o [k \in 1..total |->
                            IF k <= covered THEN LineACovered ELSE LineAUncovered])

\* both scripts at the end of their loops over a profile of up to MaxStatements
\* statements
InitReport ==
    \E total \in 0..MaxStatements :
        \E covered \in 0..total :
            /\ coverage_file = ReportFile(covered, total)
            /\ a_pc = "loop" /\ a_i = total + 2
            /\ file_stats = (IF total = 0 THEN EmptyStats
                             ELSE [f \in {<<"a">>} |-> [total |-> total, covered |-> covered]])
            /\ file_keys = (IF total = 0 THEN <<>> ELSE << <<"a">> >>)
            /\ total_statements = total /\ covered_statements = covered
            /\ a_out = NoReport
            /\ s_pc = "loop" /\ s_i = total + 2
            /\ total_lines = total /\ covered_lines = covered
            /\ s_out = [NoSimpleReport EXCEPT !.counts = TRUE,
                                              !.file_lines = total + 1,
                                              !.data_lines = total]
            /\ run = 1 /\ prev = NoPrev

NextReport ==
    \/ AnalyzeReport
    \/ SimpleReport

SpecReport == InitReport /\ [][NextReport]_vars

\* the bijections of 1..n
Perms(n) == {p \in [1..n -> 1..n] : \A j, k \in 1..n : p[j] = p[k] => j = k}

\* the file with its data lines (all but the first line) rearranged by p
Shuffled(ls, p) ==
    IF ls = <<>> THEN ls
    ELSE <<ls[1]>> \o [k \in 1..(Len(ls) - 1) |-> ls[p[k] + 1]]

\* the data lines of the file are shuffled and analyze_coverage is run again
Rerun ==
    /\ run = 1
    /\ a_pc \in {"done", "aborted"}
    /\ coverage_file.exists
    /\ \E p \in Perms(IF lines = <<>> THEN 0 ELSE Len(lines) - 1) :
           coverage_file' = FileOf(Shuffled(lines, p))
    /\ prev' = [pc |-> a_pc, lines |-> lines, file_stats |-> file_stats,
                total |-> total_statements, covered |-> covered_statements]
    /\ run' = 2
    /\ a_pc' = "start" /\ a_i' = 1
    /\ file_stats' = EmptyStats /\ file_keys' = <<>>
    /\ total_statements' = 0 /\ covered_statements' = 0
    /\ a_out' = NoReport
    /\ UNCHANGED s_vars

InitShuffle ==
    /\ coverage_file \in Files(ShuffleChoices, MaxShuffleLines)
    /\ Fresh

NextShuffle ==
    \/ AnalyzeOpen
    \/ AnalyzeLine
    \/ AnalyzeReport
    \/ Rerun

SpecShuffle == InitShuffle /\ [][NextShuffle]_vars

----------------------------------------------------------------------------
(* The vocabulary of the claims *)

Tokens(l) == Split(Strip(l))

\* a line that is blank after trimming, has fewer than 3 tokens, or has no colon
\* in token 0
SkipShape(l) ==
    \/ Strip(l) = <<>>
    \/ Len(Tokens(l)) < 3
    \/ \A k \in DOMAIN Tokens(l)[1] : Tokens(l)[1][k] # ":"

\* a token that is a non-negative integer
ValidCount(tok) == IntParses(tok) /\ tok[1] # "-"

\* a line of at least 3 tokens whose token 2 is not a non-negative integer
BadCountShape(l) == Len(Tokens(l)) >= 3 /\ ~ValidCount(Tokens(l)[3])

\* the indices of the data lines analyze_coverage has gone past
Folded == IF a_pc \in {"loop", "done"} THEN 2..(a_i - 1) ELSE {}

\* the part of token 0 before its last colon
Identifier(l) == SubSeq(Tokens(l)[1], 1, RFind(Tokens(l)[1], ":"))

\* the identifier without the module prefix, when it starts with it
LeadingStripped(id) ==
    IF Len(id) >= Len(ModulePrefix) /\ SubSeq(id, 1, Len(ModulePrefix)) = ModulePrefix
    THEN SubSeq(id, Len(ModulePrefix) + 1, Len(id))
    ELSE id

RECURSIVE SumTotal(_, _)
SumTotal(stats, S) ==
    IF S = {} THEN 0
    ELSE LET f == CHOOSE x \in S : TRUE
         IN  stats[f].total + SumTotal(stats, S \ {f})

RECURSIVE SumCovered(_, _)
SumCovered(stats, S) ==
    IF S = {} THEN 0
    ELSE LET f == CHOOSE x \in S : TRUE
         IN  stats[f].covered + SumCovered(stats, S \ {f})

\* an analyze_coverage step
AnalyzeStep == a_vars' # a_vars

----------------------------------------------------------------------------
(* Claims *)

\* C1: after folding any prefix of the data lines, total_statements is the sum of
\* the per-file totals and covered_statements the sum of the per-file covered counts.
C1_SumConsistency ==
    /\ total_statements = SumTotal(file_stats, DOMAIN file_stats)
    /\ covered_statements = SumCovered(file_stats, DOMAIN file_stats)

\* C1: a finished run over two files, some statements covered and some not
C1_Witness ==
    /\ a_pc = "done"
    /\ Cardinality(DOMAIN file_stats) >= 2
    /\ 0 < covered_statements
    /\ covered_statements < total_statements

\* C2: a data line that is blank, has fewer than 3 tokens or has no colon in token 0
\* is skipped whatever its other tokens are: the run goes on to the next line and
\* no per-file or global total changes.
C2_MalformedLineSkipped ==
    [][(a_pc = "loop" /\ a_i <= Len(lines) /\ SkipShape(lines[a_i]) /\ AnalyzeStep)
        => /\ a_pc' = "loop"
           /\ a_i' = a_i + 1
           /\ file_stats' = file_stats
           /\ total_statements' = total_statements
           /\ covered_statements' = covered_statements]_vars

\* C3: a data line of at least 3 tokens whose token 2 is not a non-negative integer
\* aborts the run: nothing is printed and the line is not counted.
C3_BadCountAborts ==
    [][(a_pc = "loop" /\ a_i <= Len(lines) /\ BadCountShape(lines[a_i]) /\ AnalyzeStep)
        => /\ a_pc' = "aborted"
           /\ ~a_out'.printed
           /\ file_stats' = file_stats
           /\ total_statements' = total_statements]_vars

\* C4: when neither script aborts, both report the same covered count, the same
\* percentage and the same verdict, and the denominator of simple_coverage_calc
\* counts no line that is blank, short or without a colon.
C4_SameReport ==
    (a_pc = "done" /\ s_pc = "done" /\ a_out.printed /\ s_out.printed)
        => /\ s_out.covered = a_out.covered
           /\ s_out.percent = a_out.overall
           /\ s_out.verdict.pass = a_out.verdict.pass
           /\ total_lines = Cardinality({k \in 2..Len(lines) : ~SkipShape(lines[k])})

\* the verdict of a report agrees with the percentage it prints
AgreesWithPrinted(shown, verdict) ==
    /\ shown >= 100 * Threshold => verdict.pass
    /\ ~verdict.pass => (verdict.shown <= 100 * Threshold - 1 /\ verdict.needed >= 1)

\* C5 as stated: the pass message whenever the printed percentage is 97.00 or more;
\* with the fail message a printed percentage of at most 96.99 and a printed
\* shortfall of at least 0.01.
C5_VerdictAgreesWithPrinted ==
    /\ a_out.printed => AgreesWithPrinted(a_out.overall, a_out.verdict)
    /\ s_out.printed => AgreesWithPrinted(s_out.percent, s_out.verdict)

\* the verdict of a report is decided by the exact percentage
AgreesWithExact(covered, total, shown, verdict) ==
    /\ verdict.pass <=> (total > 0 /\ 100 * covered >= Threshold * total)
    /\ shown >= 100 * Threshold + 1 => verdict.pass
    /\ ~verdict.pass => (verdict.shown <= 100 * Threshold /\ verdict.needed >= 0)

\* C5 amended: the pass message exactly when the unrounded percentage is 97 or more,
\* hence whenever the printed percentage is 97.01 or more; with the fail message a
\* printed percentage of at most 97.00 and a printed shortfall of at least 0.00.
C5_VerdictAgreesWithExact ==
    /\ a_out.printed =>
         AgreesWithExact(covered_statements, total_statements, a_out.overall, a_out.verdict)
    /\ s_out.printed =>
         AgreesWithExact(covered_lines, total_lines, s_out.percent, s_out.verdict)

\* C5: both scripts print the fail message with 97.00% and a shortfall of 0.00
C5_Witness ==
    /\ a_out.printed /\ s_out.printed
    /\ ~a_out.verdict.pass /\ ~s_out.verdict.pass
    /\ a_out.verdict.shown = 100 * Threshold /\ a_out.verdict.needed = 0
    /\ s_out.verdict.shown = 100 * Threshold /\ s_out.verdict.needed = 0

\* C6: the names records are accumulated under are the identifiers (token 0 before
\* its last colon) of the folded record lines, without the module prefix where the
\* identifier starts with it and otherwise intact.
C6_LeadingPrefixOnly ==
    a_pc \in {"loop", "done"}
        => DOMAIN file_stats =
             {LeadingStripped(Identifier(lines[k])) :
                k \in {j \in Folded : ~SkipShape(lines[j])}}

\* C7: a run on the shuffled data lines ends with the same file_stats and the same
\* global totals as the run before the shuffle.
C7_ShuffleInvariant ==
    (run = 2 /\ a_pc = "done" /\ prev.pc = "done")
        => /\ file_stats = prev.file_stats
           /\ total_statements = prev.total
           /\ covered_statements = prev.covered

\* C7: a second run over really reordered lines, two files or more
C7_Witness ==
    /\ run = 2 /\ a_pc = "done" /\ prev.pc = "done"
    /\ lines # prev.lines
    /\ Cardinality(DOMAIN file_stats) >= 2
    /\ 0 < covered_statements
    /\ covered_statements < total_statements

\* C8: covered never exceeds total, per file and globally, and covered_lines does
\* not exceed total_lines once the counting loop of simple_coverage_calc has ended.
C8_CoveredAtMostTotal ==
    /\ \A f \in DOMAIN file_stats :
          0 <= file_stats[f].covered /\ file_stats[f].covered <= file_stats[f].total
    /\ 0 <= covered_statements /\ covered_statements <= total_statements
    /\ ((s_pc = "loop" /\ s_i > Len(lines)) \/ s_pc = "done")
          => covered_lines <= total_lines

\* a report of 0 covered, 0.00% and the fail verdict with a shortfall of 97.00
ZeroReport(covered, percent, verdict) ==
    /\ covered = 0
    /\ percent = 0
    /\ ~verdict.pass
    /\ verdict.needed = 100 * Threshold

\* C9: on a file with no record (only the header, or only lines that are skipped)
\* neither script aborts and each reports 0 covered of 0 statements, 0.00% and
\* the fail verdict with a shortfall of 97.00.
C9_ZeroRecords ==
    (coverage_file.exists /\ \A k \in 2..Len(lines) : SkipShape(lines[k]))
        => /\ a_pc # "aborted"
           /\ s_pc # "aborted"
           /\ a_out.printed =>
                (a_out.total = 0 /\ ZeroReport(a_out.covered, a_out.overall, a_out.verdict))
           /\ s_out.counts => s_out.data_lines = 0
           /\ s_out.printed =>
                ZeroReport(s_out.covered, s_out.percent, s_out.verdict)

\* the name analyze_coverage accumulates a record line under
NameOfLine(l) == StripPrefix(Identifier(l))

\* C10: the per-file table has exactly one row for each name that received a
\* record, in strictly ascending lexicographic order of the names.
C10_RowsSorted ==
    a_out.printed =>
        LET rows  == a_out.rows
            names == {NameOfLine(lines[k]) : k \in {j \in 2..Len(lines) : ~SkipShape(lines[j])}}
        IN  /\ {rows[k].name : k \in DOMAIN rows} = names
            /\ Len(rows) = Cardinality(names)
            /\ \A j, k \in DOMAIN rows : j < k => StrLess(rows[j].name, rows[k].name)

\* C10: three rows, and the file that appeared first in the input is printed last
C10_Witness ==
    /\ a_out.printed
    /\ Len(a_out.rows) = 3
    /\ Len(lines) >= 2 /\ ~SkipShape(lines[2])
    /\ a_out.rows[3].name = NameOfLine(lines[2])

====
